---- MODULE Spec2Model ----
(***************************************************************************)
(* EmoGo backend (src/main.py): three collections of a document store      *)
(* (vlogs, sentiments, gps), one create and one list handler per           *)
(* collection, the video download, the three JSON exports and the          *)
(* sample-data seeding.                                                    *)
(*                                                                         *)
(* Python values are represented as follows.                               *)
(*   Optional[T]   None is <<>>, a present value v is <<v>>                *)
(*   str (ids, base64 payloads)  a sequence of one-character strings       *)
(*   str (user_id, labels)       a TLA+ string                             *)
(*   float         the decimal literal, as a TLA+ string                   *)
(*   datetime      [ms |-> milliseconds, us |-> microseconds 0..999]       *)
(*   bytes         a sequence of integers 0..255                           *)
(*   ObjectId      its 12 bytes                                            *)
(***************************************************************************)
EXTENDS Integers, Sequences, FiniteSets, TLC

VARIABLES store, nextOid, clock, inflight, begun, seeds, resp, created

vars == <<store, nextOid, clock, inflight, begun, seeds, resp, created>>

\* ------------------------------------------------------------ bounds
MaxCreates == 2
MaxSeeds == 1
SeededRounds == 34

\* ------------------------------------------------------------ Python values
None == <<>>

Some(v) == <<v>>

Val(o) == o[1]

\* "if user_id:" -- None and the empty string are both false.
TruthyName(o) == o # None /\ Val(o) # ""

\* "if not video_data:" -- None and the empty string are both false.
TruthyText(o) == o # None /\ Len(Val(o)) > 0

Dt(ms, us) == [ms |-> ms, us |-> us]

\* The first n elements of s (all of s when it has fewer).
Take(s, n) == SubSeq(s, 1, IF n < Len(s) THEN n ELSE Len(s))

\* The documents of s whose user_id is uid, in order.
Matching(s, uid) == SelectSeq(s, LAMBDA d : d.user_id = uid)

\* ------------------------------------------------------------ bson.ObjectId
OidLen == 12

OidHexLen == 24

HexDigits == <<"0", "1", "2", "3", "4", "5", "6", "7", "8", "9", "a", "b", "c", "d", "e", "f">>

UpperHex == <<"0", "1", "2", "3", "4", "5", "6", "7", "8", "9", "A", "B", "C", "D", "E", "F">>

IsHex(c) == \E i \in 1..16 : HexDigits[i] = c \/ UpperHex[i] = c

HexVal(c) == (CHOOSE i \in 1..16 : HexDigits[i] = c \/ UpperHex[i] = c) - 1

NewOidMutant(n) == [i \in 1..OidLen |-> IF i = OidLen THEN (n \div 2) % 256 ELSE 0]

\* The ObjectId the driver generates for the n-th insert: the trailing three
\* bytes are the counter, the leading nine identify time and process.
NewOid(n) == [i \in 1..OidLen |->
                IF i = OidLen THEN n % 256
                ELSE IF i = OidLen - 1 THEN (n \div 256) % 256
                ELSE IF i = OidLen - 2 THEN (n \div 65536) % 256
                ELSE 0]

\* str(ObjectId): 24 lower-case hexadecimal digits.
OidStr(oid) == [k \in 1..OidHexLen |->
                  IF k % 2 = 1 THEN HexDigits[(oid[(k + 1) \div 2] \div 16) + 1]
                  ELSE HexDigits[(oid[k \div 2] % 16) + 1]]

\* ObjectId(s) accepts exactly the strings of 24 hexadecimal digits, of
\* either case; anything else raises InvalidId.
OidValid(s) == Len(s) = OidHexLen /\ \A k \in 1..Len(s) : IsHex(s[k])

ObjectId(s) == [i \in 1..OidLen |-> 16 * HexVal(s[2 * i - 1]) + HexVal(s[2 * i])]

IsObjectId(v) == Len(v) = OidLen /\ \A i \in 1..Len(v) : v[i] \in 0..255

PyStrMutant(v) == IF IsObjectId(v) THEN OidStr(v) ELSE <<"'">> \o v \o <<"'">>

\* str(v): an ObjectId renders as its hexadecimal form, a str is itself.
PyStr(v) == IF IsObjectId(v) THEN OidStr(v) ELSE v

serialize_doc(doc) == [doc EXCEPT !._id = PyStr(doc._id)]

\* ------------------------------------------------------------ base64.b64decode
B64Alphabet == <<"A", "B", "C", "D", "E", "F", "G", "H", "I", "J", "K", "L", "M",
                 "N", "O", "P", "Q", "R", "S", "T", "U", "V", "W", "X", "Y", "Z",
                 "a", "b", "c", "d", "e", "f", "g", "h", "i", "j", "k", "l", "m",
                 "n", "o", "p", "q", "r", "s", "t", "u", "v", "w", "x", "y", "z",
                 "0", "1", "2", "3", "4", "5", "6", "7", "8", "9", "+", "/">>

IsB64(c) == \E i \in 1..64 : B64Alphabet[i] = c

B64Val(c) == (CHOOSE i \in 1..64 : B64Alphabet[i] = c) - 1

\* Characters outside ASCII make the str -> bytes conversion raise ValueError.
NonAscii == {"~e"}

\* binascii.a2b_base64 in its default (non-strict) mode. The decoder reads
\* one character at a time: a character outside the alphabet is skipped, an
\* alphabet character adds six bits to the current group of four, and "="
\* counts as padding when the group holds two or three characters; padding
\* that completes the group ends the decoding, whatever follows. Input that
\* ends inside a group is an error.
DataCount(s, k) == Cardinality({j \in 1..k : IsB64(s[j])})

LastData(s, k) ==
    LET ps == {j \in 1..k : IsB64(s[j])}
    IN  IF ps = {} THEN 0 ELSE CHOOSE j \in ps : \A i \in ps : i <= j

Pads(s, k) == Cardinality({j \in (LastData(s, k) + 1)..k : s[j] = "="})

a2b_base64(s) ==
    LET stops == {k \in 1..Len(s) :
                     /\ s[k] = "="
                     /\ DataCount(s, k) % 4 >= 2
                     /\ (DataCount(s, k) % 4) + Pads(s, k) >= 4}
        end == IF stops = {} THEN Len(s)
               ELSE (CHOOSE k \in stops : \A i \in stops : k <= i) - 1
        data == SelectSeq(SubSeq(s, 1, end), IsB64)
        v == [i \in 1..Len(data) |-> B64Val(data[i])]
        m == Len(v)
        nb == (m \div 4) * 3 + (IF m % 4 < 2 THEN 0 ELSE (m % 4) - 1)
        byte(j) == LET g == 4 * ((j - 1) \div 3)
                       r == (j - 1) % 3
                   IN  IF r = 0 THEN v[g + 1] * 4 + (v[g + 2] \div 16)
                       ELSE IF r = 1 THEN (v[g + 2] % 16) * 16 + (v[g + 3] \div 4)
                       ELSE (v[g + 3] % 4) * 64 + v[g + 4]
    IN  IF stops = {} /\ m % 4 # 0
        THEN [ok |-> FALSE, bytes |-> <<>>]
        ELSE [ok |-> TRUE, bytes |-> [j \in 1..nb |-> byte(j)]]

b64decode(s) ==
    IF \E k \in 1..Len(s) : s[k] \in NonAscii
    THEN [ok |-> FALSE, bytes |-> <<>>]
    ELSE a2b_base64(s)

\* ------------------------------------------------------------ the document store
Kinds == {"vlogs", "sentiments", "gps"}

DefaultLimit == 100

ExportLimit == 1000

\* BSON keeps a datetime as whole milliseconds: the microseconds are dropped
\* when the document is written.
BsonDatetime(o) == IF o = None THEN None ELSE Some(Dt(Val(o).ms, 0))

\* The document as the store keeps it: the inserted dict with its key.
BsonDoc(dict, oid) ==
    [k \in DOMAIN dict \cup {"_id"} |->
        IF k = "_id" THEN oid
        ELSE IF k = "timestamp" THEN BsonDatetime(dict[k])
        ELSE dict[k]]

insert_one_mutant(coll, dict, n) ==
    IF coll = <<>> THEN <<BsonDoc(dict, NewOid(n))>>
    ELSE [coll EXCEPT ![Len(coll)] = BsonDoc(dict, NewOid(n))]

\* collection.insert_one(dict): one more document, under a fresh ObjectId.
insert_one(coll, dict, n) == Append(coll, BsonDoc(dict, NewOid(n)))

\* collection.insert_many(dicts): the documents in order, ids n, n+1, ...
insert_many(coll, dicts, n) ==
    coll \o [i \in 1..Len(dicts) |-> BsonDoc(dicts[i], NewOid(n + i - 1))]

\* query = {}; if user_id: query["user_id"] = user_id; collection.find(query)
find(coll, user_id) ==
    IF TruthyName(user_id) THEN Matching(coll, Val(user_id)) ELSE coll

to_list_mutant(docs, length) ==
    IF length < 0 THEN [ok |-> FALSE, docs |-> <<>>]
    ELSE [ok |-> TRUE, docs |-> Take(docs, length + 1)]

\* cursor.to_list(length): ValueError for a negative length, else the first
\* length documents.
to_list(docs, length) ==
    IF length < 0 THEN [ok |-> FALSE, docs |-> <<>>]
    ELSE [ok |-> TRUE, docs |-> Take(docs, length)]

\* collection.find_one({"_id": oid}): the document, or None.
find_one(coll, oid) ==
    LET hits == {i \in 1..Len(coll) : coll[i]._id = oid}
    IN  IF hits = {} THEN None ELSE Some(coll[CHOOSE i \in hits : \A j \in hits : i <= j])

\* [serialize_doc(d) for d in docs]
SerializeAll(docs) == [i \in 1..Len(docs) |-> serialize_doc(docs[i])]

\* json.dumps has no encoding for datetime: JSONResponse(content=...) raises
\* TypeError when a document carries one.
JsonDumpsOk(docs) ==
    \A i \in 1..Len(docs) :
        ~("timestamp" \in DOMAIN docs[i] /\ docs[i].timestamp # None)

\* ------------------------------------------------------------ request inputs
T1 == Dt(100000000, 456)

T2 == Dt(100000500, 0)

VlogEntries ==
    { [user_id |-> "user_001", video_url |-> Some("file:///a.mp4"), video_data |-> None,
       description |-> None, timestamp |-> None],
      [user_id |-> "user_001", video_url |-> None, video_data |-> Some(<<"A", "A", "A", "A">>),
       description |-> Some("walk"), timestamp |-> Some(T1)],
      [user_id |-> "user_002", video_url |-> None, video_data |-> Some(<<>>),
       description |-> None, timestamp |-> None],
      [user_id |-> "user_002", video_url |-> None, video_data |-> Some(<<"Q", "U", "J", "D", "Q">>),
       description |-> Some("lunch"), timestamp |-> Some(T2)] }

SentimentEntries ==
    { [user_id |-> "user_001", sentiment |-> "happy", score |-> Some("0.85"), timestamp |-> None],
      [user_id |-> "user_002", sentiment |-> "sad", score |-> None, timestamp |-> Some(T1)] }

GPSEntries ==
    { [user_id |-> "user_001", latitude |-> "25.03", longitude |-> "121.56",
       accuracy |-> None, timestamp |-> None] }

UserFilters == {None, Some(""), Some("user_001")}

Limits == {None, Some(-1), Some(0), Some(1)}

FewLimits == {None, Some(1)}

\* ------------------------------------------------------------ sample data
sample_video_base64 ==
    <<"A", "A", "A", "A", "I", "G", "Z", "0", "e", "X", "B", "p", "c", "2", "9",
      "t", "A", "A", "A", "C", "A", "G", "l", "z", "b", "2", "1", "p", "c", "2",
      "8", "y", "Y", "X", "Z", "j", "M", "W", "1", "w", "N", "D", "E", "A", "A",
      "A", "A", "I", "Z", "n", "J", "l", "Z", "Q", "A", "A", "A", "A", "h", "t",
      "Z", "G", "F", "0", "A", "A", "A", "A">>

\* datetime(2024, 12, d, h, m, 0) in milliseconds since 2024-12-01 00:00.
SampleTime(d, h, m) == Some(Dt((((d - 1) * 24 + h) * 60 + m) * 60000, 0))

sample_vlogs ==
    << [user_id |-> "user_001", video_data |-> Some(sample_video_base64),
        description |-> Some("Morning walk in the park - feeling refreshed!"),
        timestamp |-> SampleTime(1, 8, 30)],
       [user_id |-> "user_001", video_data |-> Some(sample_video_base64),
        description |-> Some("Lunch with friends at the cafe"),
        timestamp |-> SampleTime(1, 12, 15)],
       [user_id |-> "user_002", video_data |-> Some(sample_video_base64),
        description |-> Some("Studying at the library"),
        timestamp |-> SampleTime(2, 14, 0)] >>

sample_sentiments ==
    << [user_id |-> "user_001", sentiment |-> "happy", score |-> Some("0.85"),
        timestamp |-> SampleTime(1, 8, 35)],
       [user_id |-> "user_001", sentiment |-> "relaxed", score |-> Some("0.72"),
        timestamp |-> SampleTime(1, 12, 20)],
       [user_id |-> "user_002", sentiment |-> "focused", score |-> Some("0.90"),
        timestamp |-> SampleTime(2, 14, 5)],
       [user_id |-> "user_002", sentiment |-> "tired", score |-> Some("0.65"),
        timestamp |-> SampleTime(2, 18, 0)] >>

sample_gps ==
    << [user_id |-> "user_001", latitude |-> "25.0330", longitude |-> "121.5654",
        accuracy |-> Some("10.5"), timestamp |-> SampleTime(1, 8, 30)],
       [user_id |-> "user_001", latitude |-> "25.0418", longitude |-> "121.5328",
        accuracy |-> Some("8.2"), timestamp |-> SampleTime(1, 12, 15)],
       [user_id |-> "user_002", latitude |-> "25.0173", longitude |-> "121.5398",
        accuracy |-> Some("5.0"), timestamp |-> SampleTime(2, 14, 0)] >>

\* ------------------------------------------------------------ state
FirstOid == 10

ClockStart == Dt(200000000, 123)

\* datetime.utcnow() of the next request: later than the one before.
Tick(c) == Dt(c.ms + 1 + ((c.us + 250) \div 1000), (c.us + 250) % 1000)

EmptyStore == [vlogs |-> <<>>, sentiments |-> <<>>, gps |-> <<>>]

\* resp is the response a handler has returned and the client has not yet
\* read; requests are observed one response at a time.
NoResp == [op |-> "none", kind |-> "none", status |-> 0, failed |-> FALSE,
           user_id |-> None, limit |-> None, vlog_id |-> <<>>,
           id |-> <<>>, body |-> <<>>, bytes |-> <<>>, filename |-> <<>>]

\* store     the three collections, each in insertion order
\* nextOid   the counter of the ObjectId generator
\* clock     the server's UTC time
\* inflight  the create requests waiting on the store
\* begun     the number of create requests received
\* seeds     the number of seeding requests received
\* created   for each successful create: the entry submitted, the server
\*           time at handling and the id returned
Init ==
    /\ store = EmptyStore
    /\ nextOid = FirstOid
    /\ clock = ClockStart
    /\ inflight = {}
    /\ begun = 0
    /\ seeds = 0
    /\ resp = NoResp
    /\ created = {}

\* ------------------------------------------------------------ create
model_dump_mutant(entry, now) == [entry EXCEPT !.timestamp = Some(now)]

\* entry.model_dump(), then the server's time where the entry has none.
model_dump(entry, now) ==
    IF entry.timestamp = None THEN [entry EXCEPT !.timestamp = Some(now)] ELSE entry

\* The handler up to "await insert_one": the dict is built and the request
\* waits on the store.
BeginCreate(kind, entry) ==
    /\ resp = NoResp
    /\ begun < MaxCreates
    /\ inflight' = inflight \cup
          {[rid |-> begun + 1, kind |-> kind, entry |-> entry, now |-> clock,
            dict |-> model_dump(entry, clock)]}
    /\ begun' = begun + 1
    /\ clock' = Tick(clock)
    /\ UNCHANGED <<store, nextOid, seeds, resp, created>>

\* The store performs the insert and the handler returns the new id; when
\* the store fails, insert_one raises and the request ends in a 500.
EndCreate(kind, p, ok) ==
    /\ resp = NoResp
    /\ p \in inflight
    /\ p.kind = kind
    /\ inflight' = inflight \ {p}
    /\ IF ok
       THEN /\ store' = [store EXCEPT ![kind] = insert_one(@, p.dict, nextOid)]
            /\ nextOid' = nextOid + 1
            /\ resp' = [NoResp EXCEPT !.op = "create", !.kind = kind, !.status = 200,
                                      !.id = PyStr(NewOid(nextOid))]
            /\ created' = created \cup
                  {[rid |-> p.rid, kind |-> kind, entry |-> p.entry, now |-> p.now,
                    id |-> PyStr(NewOid(nextOid))]}
       ELSE /\ resp' = [NoResp EXCEPT !.op = "create", !.kind = kind, !.status = 500,
                                      !.failed = TRUE]
            /\ UNCHANGED <<store, nextOid, created>>
    /\ UNCHANGED <<clock, begun, seeds>>

create_vlog(vlog) == BeginCreate("vlogs", vlog)

create_vlog_insert(p, ok) == EndCreate("vlogs", p, ok)

create_sentiment(sentiment) == BeginCreate("sentiments", sentiment)

create_sentiment_insert(p, ok) == EndCreate("sentiments", p, ok)

create_gps(gps) == BeginCreate("gps", gps)

create_gps_insert(p, ok) == EndCreate("gps", p, ok)

\* ------------------------------------------------------------ list
\* find(query).to_list(limit), then serialize_doc on every document.
ListDocs(kind, user_id, limit, ok) ==
    LET length == IF limit = None THEN DefaultLimit ELSE Val(limit)
        got == to_list(find(store[kind], user_id), length)
        req == [NoResp EXCEPT !.op = "list", !.kind = kind, !.user_id = user_id,
                              !.limit = limit]
    IN  /\ resp = NoResp
        /\ resp' = IF ~got.ok THEN [req EXCEPT !.status = 500]
                   ELSE IF ~ok THEN [req EXCEPT !.status = 500, !.failed = TRUE]
                   ELSE [req EXCEPT !.status = 200, !.body = SerializeAll(got.docs)]
        /\ UNCHANGED <<store, nextOid, clock, inflight, begun, seeds, created>>

get_vlogs(user_id, limit, ok) == ListDocs("vlogs", user_id, limit, ok)

get_sentiments(user_id, limit, ok) == ListDocs("sentiments", user_id, limit, ok)

get_gps(user_id, limit, ok) == ListDocs("gps", user_id, limit, ok)

\* ------------------------------------------------------------ download
\* vlog.get("video_data"): None when the document has no such key.
GetVideoData(vlog) == IF "video_data" \in DOMAIN vlog THEN vlog.video_data ELSE None

DownloadStatusMutant(vlog_id, ok) ==
    IF ~OidValid(vlog_id) THEN 400
    ELSE IF ~ok THEN 400
    ELSE LET vlog == find_one(store.vlogs, ObjectId(vlog_id))
         IN  IF vlog = None THEN 404
             ELSE IF GetVideoData(Val(vlog)) = None THEN 404
             ELSE IF ~b64decode(Val(GetVideoData(Val(vlog)))).ok THEN 500
             ELSE 200

\* The status download_vlog_video answers with. ObjectId(vlog_id) and the
\* find_one share one try block whose handler answers 400 for any exception.
DownloadStatus(vlog_id, ok) ==
    IF ~OidValid(vlog_id) THEN 400
    ELSE IF ~ok THEN 400
    ELSE LET vlog == find_one(store.vlogs, ObjectId(vlog_id))
         IN  IF vlog = None THEN 404
             ELSE IF ~TruthyText(GetVideoData(Val(vlog))) THEN 404
             ELSE IF ~b64decode(Val(GetVideoData(Val(vlog)))).ok THEN 500
             ELSE 200

download_vlog_video(vlog_id, ok) ==
    LET status == DownloadStatus(vlog_id, ok)
        req == [NoResp EXCEPT !.op = "download", !.kind = "vlogs", !.vlog_id = vlog_id,
                              !.status = status,
                              !.failed = (OidValid(vlog_id) /\ ~ok)]
    IN  /\ resp = NoResp
        /\ resp' = IF status = 200
                   THEN [req EXCEPT
                           !.bytes = b64decode(Val(GetVideoData(Val(
                                        find_one(store.vlogs, ObjectId(vlog_id)))))).bytes,
                           !.filename = <<"vlog_">> \o vlog_id \o <<".mp4">>]
                   ELSE req
        /\ UNCHANGED <<store, nextOid, clock, inflight, begun, seeds, created>>

\* ------------------------------------------------------------ export
\* find().to_list(1000), serialize_doc, JSONResponse(content=...).
ExportDocs(kind, ok) ==
    LET got == to_list(find(store[kind], None), ExportLimit)
        req == [NoResp EXCEPT !.op = "export", !.kind = kind]
    IN  /\ resp = NoResp
        /\ resp' = IF ~ok THEN [req EXCEPT !.status = 500, !.failed = TRUE]
                   ELSE IF ~JsonDumpsOk(SerializeAll(got.docs))
                   THEN [req EXCEPT !.status = 500]
                   ELSE [req EXCEPT !.status = 200, !.body = SerializeAll(got.docs)]
        /\ UNCHANGED <<store, nextOid, clock, inflight, begun, seeds, created>>

export_vlogs(ok) == ExportDocs("vlogs", ok)

export_sentiments(ok) == ExportDocs("sentiments", ok)

export_gps(ok) == ExportDocs("gps", ok)

\* ------------------------------------------------------------ seeding
\* The three insert_many calls in order; done is how many of them the store
\* performs before one fails (3: all of them).
SeedStore(s, n, done) ==
    LET s1 == IF done >= 1
              THEN [s EXCEPT !.vlogs = insert_many(@, sample_vlogs, n)] ELSE s
        s2 == IF done >= 2
              THEN [s1 EXCEPT !.sentiments =
                        insert_many(@, sample_sentiments, n + Len(sample_vlogs))]
              ELSE s1
    IN  IF done >= 3
        THEN [s2 EXCEPT !.gps = insert_many(@, sample_gps,
                                  n + Len(sample_vlogs) + Len(sample_sentiments))]
        ELSE s2

SampleCount == Len(sample_vlogs) + Len(sample_sentiments) + Len(sample_gps)

seed_sample_data(done) ==
    /\ resp = NoResp
    /\ seeds < MaxSeeds
    /\ seeds' = seeds + 1
    /\ store' = SeedStore(store, nextOid, done)
    /\ nextOid' = nextOid + SampleCount
    /\ resp' = [NoResp EXCEPT !.op = "seed", !.status = IF done = 3 THEN 200 ELSE 500,
                              !.failed = (done < 3)]
    /\ UNCHANGED <<clock, inflight, begun, created>>

\* ------------------------------------------------------------ client
\* The client reads the response.
take_response ==
    /\ resp # NoResp
    /\ resp' = NoResp
    /\ UNCHANGED <<store, nextOid, clock, inflight, begun, seeds, created>>

\* ------------------------------------------------------------ specification
\* The identifiers a client may ask to download: those of stored vlogs, one
\* in upper case, the key of a sentiment, the all-zero key, and strings that
\* are no key at all.
ToUpper(s) == [k \in 1..Len(s) |->
                 IF IsHex(s[k]) THEN UpperHex[HexVal(s[k]) + 1] ELSE s[k]]

VlogIds ==
    {PyStr(store.vlogs[i]._id) : i \in 1..Len(store.vlogs)}
    \cup {ToUpper(PyStr(store.vlogs[i]._id)) : i \in 1..(IF Len(store.vlogs) > 0 THEN 1 ELSE 0)}
    \cup {PyStr(store.sentiments[i]._id) :
             i \in 1..(IF Len(store.sentiments) > 0 THEN 1 ELSE 0)}
    \cup {PyStr(NewOid(0))}
    \cup {<<"a", "b", "c">>, [k \in 1..OidHexLen |-> "g"]}

Creates ==
    \/ \E vlog \in VlogEntries : create_vlog(vlog)
    \/ \E p \in inflight, ok \in BOOLEAN : create_vlog_insert(p, ok)
    \/ \E sentiment \in SentimentEntries : create_sentiment(sentiment)
    \/ \E p \in inflight, ok \in BOOLEAN : create_sentiment_insert(p, ok)
    \/ \E gps \in GPSEntries : create_gps(gps)
    \/ \E p \in inflight, ok \in BOOLEAN : create_gps_insert(p, ok)

\* The list requests with a limit among limits. A failing store answers a
\* list the same way whatever the filter and the limit.
Lists(limits) ==
    \/ \E user_id \in UserFilters, limit \in limits : get_vlogs(user_id, limit, TRUE)
    \/ get_vlogs(None, None, FALSE)
    \/ \E user_id \in UserFilters, limit \in limits : get_sentiments(user_id, limit, TRUE)
    \/ get_sentiments(None, None, FALSE)
    \/ \E user_id \in UserFilters, limit \in limits : get_gps(user_id, limit, TRUE)
    \/ get_gps(None, None, FALSE)

Reads ==
    \/ \E vlog_id \in VlogIds, ok \in BOOLEAN : download_vlog_video(vlog_id, ok)
    \/ \E ok \in BOOLEAN : export_vlogs(ok)
    \/ \E ok \in BOOLEAN : export_sentiments(ok)
    \/ \E ok \in BOOLEAN : export_gps(ok)

Next == Creates \/ Lists(FewLimits) \/ Reads \/ take_response

\* The store outlives the server: a server may start on a store that earlier
\* seeding requests have filled.
Seeded(rounds) ==
    LET fill(samples, offset) ==
            [i \in 1..(rounds * Len(samples)) |->
                BsonDoc(samples[((i - 1) % Len(samples)) + 1],
                        NewOid(FirstOid + ((i - 1) \div Len(samples)) * SampleCount
                               + offset + ((i - 1) % Len(samples))))]
    IN  [vlogs |-> fill(sample_vlogs, 0),
         sentiments |-> fill(sample_sentiments, Len(sample_vlogs)),
         gps |-> fill(sample_gps, Len(sample_vlogs) + Len(sample_sentiments))]

InitSeeded ==
    /\ store = Seeded(SeededRounds)
    /\ nextOid = FirstOid + SeededRounds * SampleCount
    /\ clock = ClockStart
    /\ inflight = {}
    /\ begun = 0
    /\ seeds = 0
    /\ resp = NoResp
    /\ created = {}

NextSeeded ==
    \/ \E done \in 0..3 : seed_sample_data(done)
    \/ Lists(Limits)
    \/ Reads
    \/ take_response

Spec == Init /\ [][Next]_vars

SpecSeeded == InitSeeded /\ [][NextSeeded]_vars

\* ------------------------------------------------------------ properties
\* The positions in a collection of the documents an id string resolves to.
Holders(kind, id) ==
    LET oid == ObjectId(id)
    IN  {i \in 1..Len(store[kind]) : store[kind][i]._id = oid}

\* The requested cap of a list call.
Length(limit) == IF limit = None THEN DefaultLimit ELSE Val(limit)

\* The time a create was asked to record: the submitted one, else the
\* server's at handling; exact to the microsecond, or in whole milliseconds.
TimeOf(c, exact) ==
    LET t == IF c.entry.timestamp = None THEN c.now ELSE Val(c.entry.timestamp)
    IN  IF exact THEN Some(t) ELSE Some(Dt(t.ms, 0))

\* doc carries the fields of the entry of create c, and no others but the key.
Carries(doc, c, exact) ==
    /\ DOMAIN doc = DOMAIN c.entry \cup {"_id"}
    /\ \A k \in DOMAIN c.entry \ {"timestamp"} : doc[k] = c.entry[k]
    /\ doc.timestamp = TimeOf(c, exact)

StoredAs(exact) ==
    \A c \in created :
        /\ OidValid(c.id)
        /\ Holders(c.kind, c.id) # {}
        /\ \A i \in Holders(c.kind, c.id) : Carries(store[c.kind][i], c, exact)

\* A list call that answered, was not cut off by its cap, and whose owner
\* filter admits the record contains the record under its id.
ListedAs(exact) ==
    (resp.op = "list" /\ resp.status = 200 /\ Len(resp.body) < Length(resp.limit))
    => \A c \in created :
          (c.kind = resp.kind
           /\ (resp.user_id = None \/ Val(resp.user_id) \in {"", c.entry.user_id}))
          => \E i \in 1..Len(resp.body) :
                /\ resp.body[i]._id = c.id
                /\ Carries(resp.body[i], c, exact)

\* A download, answered by the store, of a created vlog whose video_data
\* qualifies returns the base64 decoding of what was submitted.
DownloadedWhere(Qualifies(_)) ==
    (resp.op = "download" /\ ~resp.failed)
    => \A c \in created :
          (c.kind = "vlogs" /\ c.id = resp.vlog_id /\ c.entry.video_data # None
           /\ Qualifies(Val(c.entry.video_data)))
          => /\ resp.status = 200
             /\ resp.bytes = b64decode(Val(c.entry.video_data)).bytes

AnyText(s) == TRUE

Decodable(s) == Len(s) > 0 /\ b64decode(s).ok

\* C1 as stated: the id a create returns identifies, in every later state, a
\* stored record whose fields equal the submitted input, the timestamp being
\* the submitted one or else the server's; a list call not cut off by the cap
\* contains it; a download of a vlog with video_data returns its base64
\* decoding.
C1_AsStated == StoredAs(TRUE) /\ ListedAs(TRUE) /\ DownloadedWhere(AnyText)

\* The download part of C1 as stated, on its own.
C1_DownloadAsStated == DownloadedWhere(AnyText)

\* C1 as amended: the same, with the timestamp in whole milliseconds (the
\* store's precision) and the download for a video_data that is non-empty and
\* decodes as base64.
C1_RoundTrip == StoredAs(FALSE) /\ ListedAs(FALSE) /\ DownloadedWhere(Decodable)

\* A created vlog has been downloaded with status 200, its server-assigned
\* or submitted time carried microseconds, and a list has shown a created
\* record.
C1_Witness ==
    /\ resp.op = "download" /\ resp.status = 200 /\ Len(resp.bytes) > 0
    /\ \E c \in created : c.id = resp.vlog_id /\ c.kind = "vlogs"
    /\ \E c \in created : TimeOf(c, TRUE) # TimeOf(c, FALSE)

\* C2: every record a list call with a supplied user_id returns has exactly
\* that user_id, whatever string the filter is.
C2_OwnerFilter ==
    (resp.op = "list" /\ resp.status = 200 /\ resp.user_id # None)
    => \A i \in 1..Len(resp.body) : resp.body[i].user_id = Val(resp.user_id)

\* C3: a list response never carries more records than the requested limit,
\* nor more than 100 when no limit is given, however many records match; a
\* request that is refused carries none.
C3_ResultCap ==
    resp.op = "list"
    => /\ resp.status = 200 => Len(resp.body) <= Length(resp.limit)
       /\ resp.limit = None => Len(resp.body) <= 100
       /\ resp.status # 200 => resp.body = <<>>

\* A list without a limit on a collection of more than 100 records returned
\* exactly 100 of them.
C3_Witness ==
    /\ resp.op = "list" /\ resp.status = 200 /\ resp.limit = None
    /\ Len(store[resp.kind]) > 100
    /\ Len(resp.body) = 100

\* C4: a failure of the store is answered with a 5xx status by every
\* operation, never 400 or 404, and the download answers 400 only for an
\* identifier that cannot be parsed.
C4_StoreFailure ==
    /\ resp.failed => resp.status \in 500..599
    /\ (resp.op = "download" /\ resp.status = 400) => ~OidValid(resp.vlog_id)

\* C5: the download answers 400 for an identifier that cannot be parsed, in
\* every state of the store, and never answers 400 for a well-formed one.
C5_MalformedId ==
    resp.op = "download"
    => (resp.status = 400 <=> ~OidValid(resp.vlog_id))

\* C6: a download with a well-formed identifier, answered by the store, is
\* 404 without a body when no vlog has that identifier or the vlog has no or
\* empty video_data, and is 500 only for a vlog whose non-empty video_data
\* fails to decode.
C6_AbsentPayload ==
    (resp.op = "download" /\ OidValid(resp.vlog_id) /\ ~resp.failed)
    => LET hits == Holders("vlogs", resp.vlog_id)
           absent(doc) == \/ "video_data" \notin DOMAIN doc
                          \/ doc.video_data = None
                          \/ doc.video_data = Some(<<>>)
       IN  /\ hits = {} => (resp.status = 404 /\ resp.bytes = <<>>)
           /\ \A i \in hits :
                 absent(store.vlogs[i]) => (resp.status = 404 /\ resp.bytes = <<>>)
           /\ resp.status = 500
                 => \E i \in hits :
                       /\ ~absent(store.vlogs[i])
                       /\ ~b64decode(Val(store.vlogs[i].video_data)).ok

\* A stored vlog whose video_data is the empty string was asked for and the
\* answer was 404.
C6_Witness ==
    /\ resp.op = "download" /\ resp.status = 404 /\ OidValid(resp.vlog_id)
    /\ \E i \in Holders("vlogs", resp.vlog_id) : store.vlogs[i].video_data = Some(<<>>)

\* C7: creates that overlap in time all succeed when the store does, get
\* pairwise distinct ids, and each id retrieves exactly one document, with
\* the payload of its own request; no write is lost.
C7_ConcurrentCreates ==
    /\ \A a, b \in created : a.rid # b.rid => a.id # b.id
    /\ \A a \in created :
          /\ Cardinality(Holders(a.kind, a.id)) = 1
          /\ \A i \in Holders(a.kind, a.id) :
                \A k \in DOMAIN a.entry \ {"timestamp"} : store[a.kind][i][k] = a.entry[k]
    /\ Len(store.vlogs) + Len(store.sentiments) + Len(store.gps) = Cardinality(created)
    /\ (resp.op = "create" /\ ~resp.failed) => (resp.status = 200 /\ OidValid(resp.id))

\* Two creates on one collection with distinct payloads were in flight
\* together and both have completed: the one received first was stored
\* second.
C7_Witness ==
    \E a, b \in created :
        /\ a.kind = b.kind /\ a.entry # b.entry
        /\ a.rid < b.rid
        /\ \E i \in Holders(a.kind, a.id), j \in Holders(b.kind, b.id) : j < i

\* C8: a successful create appends exactly one document, under an id no
\* stored document has, to its own collection and changes nothing else; no
\* other operation changes a collection; no stored document is ever changed
\* or removed.
C8_CreateFrame ==
    [][LET ends == resp = NoResp /\ resp' # NoResp
           old(k) == {store[k][i]._id : i \in 1..Len(store[k])}
       IN  /\ (ends /\ resp'.op = "create" /\ resp'.status = 200)
              => /\ Len(store'[resp'.kind]) = Len(store[resp'.kind]) + 1
                 /\ store'[resp'.kind][Len(store'[resp'.kind])]._id
                       \notin (old("vlogs") \cup old("sentiments") \cup old("gps"))
                 /\ PyStr(store'[resp'.kind][Len(store'[resp'.kind])]._id) = resp'.id
                 /\ \A k \in Kinds \ {resp'.kind} : store'[k] = store[k]
           /\ (ends /\ ~(resp'.op = "create" /\ resp'.status = 200)) => store' = store
           /\ ~ends => store' = store
           /\ \A k \in Kinds :
                 /\ Len(store'[k]) >= Len(store[k])
                 /\ \A i \in 1..Len(store[k]) : store'[k][i] = store[k][i]
      ]_vars

\* The same payload was created twice and is stored twice, under two ids.
C8_Witness ==
    \E a, b \in created :
        /\ a.rid # b.rid /\ a.kind = b.kind /\ a.entry = b.entry
        /\ a.id # b.id
        /\ Holders(a.kind, a.id) # {} /\ Holders(b.kind, b.id) # {}

\* C9: an export the store answers succeeds with the stored records of its
\* kind, at most 1000 of them, each with its identifier as a string and all
\* other fields as stored.
C9_Export ==
    (resp.op = "export" /\ ~resp.failed)
    => /\ resp.status = 200
       /\ Len(resp.body) = (IF Len(store[resp.kind]) < 1000
                            THEN Len(store[resp.kind]) ELSE 1000)
       /\ \A i \in 1..Len(resp.body) :
             /\ resp.body[i]._id = OidStr(store[resp.kind][i]._id)
             /\ \A k \in DOMAIN store[resp.kind][i] \ {"_id"} :
                   resp.body[i][k] = store[resp.kind][i][k]

\* C10: serialize_doc puts the canonical string form of the key under "_id",
\* leaves every other field as it was, and returns an already serialized
\* document unchanged.
C10_SerializeIdempotent ==
    /\ \A kind \in Kinds : \A i \in 1..Len(store[kind]) :
          LET d == store[kind][i]
              s == serialize_doc(d)
          IN  /\ DOMAIN s = DOMAIN d
              /\ Len(s._id) = 24 /\ \A n \in 1..Len(s._id) : \E h \in 1..16 : s._id[n] = HexDigits[h]
              /\ ObjectId(s._id) = d._id
              /\ \A k \in DOMAIN d \ {"_id"} : s[k] = d[k]
              /\ serialize_doc(s) = s
    /\ resp.op = "list" => \A i \in 1..Len(resp.body) :
                               serialize_doc(resp.body[i]) = resp.body[i]

\* A list has returned serialized documents, one of them with a key that has
\* a letter among its digits.
C10_Witness ==
    /\ resp.op = "list" /\ Len(resp.body) > 0
    /\ \E i \in 1..Len(resp.body) : \E n \in 1..24 : resp.body[i]._id[n] \in {"a", "b", "c"}

====
